---- MODULE Spec2Model ----
(***************************************************************************)
(* Handler/filter dispatch of pywa/handlers.py: the Handler hierarchy,     *)
(* Handler.__call__ and _resolve_callback_data.                            *)
(*                                                                         *)
(* One handler object is followed through its life: it is constructed by   *)
(* one of the five constructors (which may raise), and is then called any  *)
(* number of times; the factory stored on a callback handler may be        *)
(* applied to raw callback strings.  Strings are sequences of characters.  *)
(***************************************************************************)
EXTENDS Integers, Sequences, FiniteSets, TLC

VARIABLES
    h,          \* the handler object (NoHandler before/without construction)
    args,       \* the arguments the constructor was called with
    ctor,       \* outcome of the constructor: "none" or the error raised
    pc,         \* "new", "failed", "idle", "filters", "done", "decoded"
    wa,         \* client argument of the running __call__
    data,       \* update argument of the running __call__
    i,          \* position of the next filter the generator in all() evaluates
    evaluated,  \* positions of the filters evaluated so far, in order
    called,     \* argument pairs the user callback was called with
    raised,     \* error that left __call__: "none" or its name
    decoded     \* outcome of the last application of h.factory

vars == <<h, args, ctor, pc, wa, data, i, evaluated, called, raised, decoded>>

---------------------------------------------------------------------------
(* Bounds of the model *)

MaxLen == 2         \* longest generated callback string
MaxFilters == 2     \* most user filters given to a constructor
MaxSeq == 2         \* longest sequence factory

---------------------------------------------------------------------------
(* Strings *)

CALLBACK_SEP == "~"

Alphabet == {"a", "b", CALLBACK_SEP}

StringsUpTo(n) == UNION {[1..k -> Alphabet] : k \in 0..n}

abc == <<"a", "b", "c">>

\* "abc~42", "xyz~42", "abcd~42"
ExampleData ==
    { <<"a", "b", "c", "~", "4", "2">>,
      <<"x", "y", "z", "~", "4", "2">>,
      <<"a", "b", "c", "d", "~", "4", "2">> }

Data == StringsUpTo(MaxLen) \cup ExampleData

Ids == { <<"a">>, <<"a", "b">>, abc }

Clients == {"wa1", "wa2"}

\* str.startswith
startswith(s, p) == Len(s) >= Len(p) /\ SubSeq(s, 1, Len(p)) = p

\* str.split(sep) for a one-character separator: one more segment than
\* there are separators, empty segments kept
RECURSIVE split(_, _)
split(s, sep) ==
    IF \A k \in 1..Len(s) : s[k] # sep THEN <<s>>
    ELSE LET k == CHOOSE n \in 1..Len(s) :
                      s[n] = sep /\ \A m \in 1..(n - 1) : s[m] # sep
         IN  <<SubSeq(s, 1, k - 1)>> \o split(SubSeq(s, k + 1, Len(s)), sep)

---------------------------------------------------------------------------
(* Values a caller may pass as factory *)

NoElems == <<>>

CallbackDataClass(id) == [shape |-> "CallbackData", id |-> id, elems |-> NoElems]
PlainClass == [shape |-> "class", id |-> <<>>, elems |-> NoElems]       \* e.g. str
Function == [shape |-> "function", id |-> <<>>, elems |-> NoElems]      \* def / lambda
Scalar == [shape |-> "scalar", id |-> <<>>, elems |-> NoElems]          \* e.g. 42
Sequence(es) == [shape |-> "sequence", id |-> <<>>, elems |-> es]       \* tuple / list

Elements == {CallbackDataClass(id) : id \in Ids} \cup {PlainClass, Function}

Factories ==
    Elements \cup {Scalar}
    \cup {Sequence(es) : es \in UNION {[1..n -> Elements] : n \in 0..MaxSeq}}

\* issubclass(x, CallbackData): raises TypeError unless x is a class
issubclass_CallbackData(x) ==
    IF x.shape \notin {"CallbackData", "class"} THEN "TypeError"
    ELSE IF x.shape = "CallbackData" THEN "True" ELSE "False"

callable(x) == x.shape \in {"CallbackData", "class", "function"}

isinstance_Iterable(x) == x.shape = "sequence"

---------------------------------------------------------------------------
(* Filters *)

UserFilter(fn) == [fn |-> fn, arg |-> <<>>]

UserFilters == {UserFilter("true"), UserFilter("false"), UserFilter("raises")}

FilterSeqs == UNION {[1..n -> UserFilters] : n \in 0..MaxFilters}

\* fil.callback.data_startswith(id): the filter object
data_startswith(id) == [fn |-> "data_startswith", arg |-> id]

\* what the filter made by data_startswith(id) answers on a callback string
matches_prefix(id, s) == startswith(s, id \o <<CALLBACK_SEP>>) \/ s = id

\* f(wa, data): "True", "False" or "Raise"
FilterResult(f, w, d) ==
    CASE f.fn = "true" -> "True"
      [] f.fn = "false" -> "False"
      [] f.fn = "raises" -> "Raise"
      [] f.fn = "data_startswith" ->
            IF matches_prefix(f.arg, d) THEN "True" ELSE "False"

---------------------------------------------------------------------------
(* _resolve_callback_data *)

Decoder(kind, of) == [kind |-> kind, of |-> of, consumed |-> 0]

NoFactory == Decoder("absent", Scalar)

Resolved(factories, clb_filter) ==
    [raises |-> "none", factories |-> factories, clb_filter |-> clb_filter]

Raises(e) == [raises |-> e, factories |-> NoFactory, clb_filter |-> <<>>]

\* variant: the structured-data type contributes no filter
_resolve_callback_data_NoFilter(factory) ==
    IF issubclass_CallbackData(factory) = "TypeError" THEN Raises("TypeError")
    ELSE IF issubclass_CallbackData(factory) = "True"
    THEN Resolved(Decoder("from_str", factory), <<>>)
    ELSE IF callable(factory)
    THEN Resolved(Decoder("itself", factory), <<>>)
    ELSE Raises("ValueError")

_resolve_callback_data(factory) ==
    IF issubclass_CallbackData(factory) = "TypeError" THEN Raises("TypeError")
    ELSE IF issubclass_CallbackData(factory) = "True"
    THEN Resolved(Decoder("from_str", factory), <<data_startswith(factory.id)>>)
    ELSE IF callable(factory)
    THEN Resolved(Decoder("itself", factory), <<>>)
    ELSE IF isinstance_Iterable(factory)
    THEN IF \E n \in DOMAIN factory.elems :
                issubclass_CallbackData(factory.elems[n]) = "TypeError"
         THEN Raises("TypeError")               \* line 34
         ELSE IF \E n \in DOMAIN factory.elems :
                issubclass_CallbackData(factory.elems[n]) = "True"
         THEN Raises("TypeError")               \* line 37: factories[...] on a lambda
         ELSE Resolved(Decoder("lambda", factory), <<>>)
    ELSE Raises("ValueError")

---------------------------------------------------------------------------
(* Constructors *)

NoHandler ==
    [type |-> "none", handler |-> "none", filters |-> <<>>, factory |-> NoFactory]

NoArgs ==
    [cls |-> "none", handler |-> "none", filters |-> <<>>, factory |-> Scalar]

Callbacks == {"returns", "raises"}

\* Handler.__init__, with the subclass's __handler_type__
HandlerInit(type, handler, filters, factory) ==
    h' = [type |-> type, handler |-> handler, filters |-> filters,
          factory |-> factory]

Quiet ==
    /\ wa = "none" /\ data = <<>> /\ i = 0 /\ evaluated = <<>>
    /\ called = <<>> /\ raised = "none" /\ decoded = <<"none">>

Init ==
    /\ h = NoHandler
    /\ args = NoArgs
    /\ ctor = "none"
    /\ pc = "new"
    /\ Quiet

MessageHandlerInit ==
    /\ pc = "new"
    /\ \E handler \in Callbacks, filters \in FilterSeqs :
          /\ args' = [cls |-> "MessageHandler", handler |-> handler,
                      filters |-> filters, factory |-> Scalar]
          /\ HandlerInit("message", handler, filters, NoFactory)
    /\ ctor' = "none"
    /\ pc' = "idle"
    /\ UNCHANGED <<wa, data, i, evaluated, called, raised, decoded>>

\* variant: super().__init__(handler, *filters, *clb_filter)
CallbackButtonHandlerInit_FiltersFirst ==
    /\ pc = "new"
    /\ \E handler \in Callbacks, filters \in FilterSeqs, factory \in Factories :
          LET r == _resolve_callback_data(factory) IN
          /\ args' = [cls |-> "CallbackButtonHandler", handler |-> handler,
                      filters |-> filters, factory |-> factory]
          /\ IF r.raises # "none"
             THEN /\ h' = NoHandler
                  /\ ctor' = r.raises
                  /\ pc' = "failed"
             ELSE /\ HandlerInit("button", handler, filters \o r.clb_filter,
                                 r.factories)
                  /\ ctor' = "none"
                  /\ pc' = "idle"
    /\ UNCHANGED <<wa, data, i, evaluated, called, raised, decoded>>

CallbackButtonHandlerInit ==
    /\ pc = "new"
    /\ \E handler \in Callbacks, filters \in FilterSeqs, factory \in Factories :
          LET r == _resolve_callback_data(factory) IN
          /\ args' = [cls |-> "CallbackButtonHandler", handler |-> handler,
                      filters |-> filters, factory |-> factory]
          /\ IF r.raises # "none"
             THEN /\ h' = NoHandler
                  /\ ctor' = r.raises
                  /\ pc' = "failed"
             ELSE /\ HandlerInit("button", handler, r.clb_filter \o filters,
                                 r.factories)
                  /\ ctor' = "none"
                  /\ pc' = "idle"
    /\ UNCHANGED <<wa, data, i, evaluated, called, raised, decoded>>

CallbackSelectionHandlerInit ==
    /\ pc = "new"
    /\ \E handler \in Callbacks, filters \in FilterSeqs, factory \in Factories :
          LET r == _resolve_callback_data(factory) IN
          /\ args' = [cls |-> "CallbackSelectionHandler", handler |-> handler,
                      filters |-> filters, factory |-> factory]
          /\ IF r.raises # "none"
             THEN /\ h' = NoHandler
                  /\ ctor' = r.raises
                  /\ pc' = "failed"
             ELSE /\ HandlerInit("selection", handler, r.clb_filter \o filters,
                                 r.factories)
                  /\ ctor' = "none"
                  /\ pc' = "idle"
    /\ UNCHANGED <<wa, data, i, evaluated, called, raised, decoded>>

MessageStatusHandlerInit ==
    /\ pc = "new"
    /\ \E handler \in Callbacks, filters \in FilterSeqs :
          /\ args' = [cls |-> "MessageStatusHandler", handler |-> handler,
                      filters |-> filters, factory |-> Scalar]
          /\ HandlerInit("message_status", handler, filters, NoFactory)
    /\ ctor' = "none"
    /\ pc' = "idle"
    /\ UNCHANGED <<wa, data, i, evaluated, called, raised, decoded>>

RawUpdateHandlerInit ==
    /\ pc = "new"
    /\ \E handler \in Callbacks, filters \in FilterSeqs :
          /\ args' = [cls |-> "RawUpdateHandler", handler |-> handler,
                      filters |-> filters, factory |-> Scalar]
          /\ HandlerInit("raw_update", handler, filters, NoFactory)
    /\ ctor' = "none"
    /\ pc' = "idle"
    /\ UNCHANGED <<wa, data, i, evaluated, called, raised, decoded>>

---------------------------------------------------------------------------
(* Handler.__call__ *)

\* entry: the generator over self.filters is created, nothing evaluated yet
Call ==
    /\ pc = "idle"
    /\ \E w \in Clients, d \in Data :
          /\ wa' = w
          /\ data' = d
    /\ i' = 1
    /\ evaluated' = <<>>
    /\ called' = <<>>
    /\ raised' = "none"
    /\ pc' = "filters"
    /\ UNCHANGED <<h, args, ctor, decoded>>

\* variant: every filter is evaluated before the results are combined,
\* all([f(wa, data) for f in self.filters])
EvalFilter_NoShortCircuit ==
    /\ pc = "filters"
    /\ i <= Len(h.filters)
    /\ evaluated' = Append(evaluated, i)
    /\ LET r == FilterResult(h.filters[i], wa, data) IN
          CASE r = "True" ->
                  /\ i' = i + 1
                  /\ UNCHANGED <<pc, raised>>
            [] r = "False" ->
                  /\ IF i < Len(h.filters)
                     THEN i' = i + 1 /\ pc' = pc
                     ELSE i' = i /\ pc' = "done"
                  /\ UNCHANGED raised
            [] r = "Raise" ->
                  /\ pc' = "done"
                  /\ raised' = "FilterError"
                  /\ UNCHANGED i
    /\ UNCHANGED <<h, args, ctor, wa, data, called, decoded>>

\* variant: a filter that raises counts as a filter that said no
EvalFilter_Swallow ==
    /\ pc = "filters"
    /\ i <= Len(h.filters)
    /\ evaluated' = Append(evaluated, i)
    /\ LET r == FilterResult(h.filters[i], wa, data) IN
          CASE r = "True" ->
                  /\ i' = i + 1
                  /\ UNCHANGED <<pc, raised>>
            [] r \in {"False", "Raise"} ->
                  /\ pc' = "done"
                  /\ UNCHANGED <<i, raised>>
    /\ UNCHANGED <<h, args, ctor, wa, data, called, decoded>>

\* all() pulls the next f(wa, data) from the generator
EvalFilter ==
    /\ pc = "filters"
    /\ i <= Len(h.filters)
    /\ evaluated' = Append(evaluated, i)
    /\ LET r == FilterResult(h.filters[i], wa, data) IN
          CASE r = "True" ->
                  /\ i' = i + 1
                  /\ UNCHANGED <<pc, raised>>
            [] r = "False" ->
                  /\ pc' = "done"
                  /\ UNCHANGED <<i, raised>>
            [] r = "Raise" ->
                  /\ pc' = "done"
                  /\ raised' = "FilterError"
                  /\ UNCHANGED i
    /\ UNCHANGED <<h, args, ctor, wa, data, called, decoded>>

\* variant: self.handler(data, wa)
InvokeHandler_Swapped ==
    /\ pc = "filters"
    /\ i > Len(h.filters)
    /\ called' = Append(called, <<data, wa>>)
    /\ raised' = IF h.handler = "raises" THEN "HandlerError" ELSE "none"
    /\ pc' = "done"
    /\ UNCHANGED <<h, args, ctor, wa, data, i, evaluated, decoded>>

\* the generator is exhausted, all() is True: self.handler(wa, data)
InvokeHandler ==
    /\ pc = "filters"
    /\ i > Len(h.filters)
    /\ called' = Append(called, <<wa, data>>)
    /\ raised' = IF h.handler = "raises" THEN "HandlerError" ELSE "none"
    /\ pc' = "done"
    /\ UNCHANGED <<h, args, ctor, wa, data, i, evaluated, decoded>>

---------------------------------------------------------------------------
(* The stored factory, applied to a raw callback string *)

\* a sub-decoder applied to a segment: the value is whatever it returns
Apply(f, s) == [fn |-> f, arg |-> s]

\* the generator _factories, an element at a time
SubDecoder(f) ==
    IF issubclass_CallbackData(f) = "True" THEN <<"from_str", f>> ELSE <<"itself", f>>

\* h.factory(raw): <<outcome, elements of _factories consumed by the call>>
ApplyFactory(dec, raw) ==
    CASE dec.kind = "from_str" -> << <<"value", Apply(<<"from_str", dec.of>>, raw)>>, 0 >>
      [] dec.kind = "itself" -> << <<"value", Apply(<<"itself", dec.of>>, raw)>>, 0 >>
      [] dec.kind = "lambda" ->
            \* zip(_factories, data.split(SEP)) is handed to map() as ONE iterable,
            \* so the two-parameter lambda is called with one argument, the pair
            IF dec.consumed < Len(dec.of.elems) /\ Len(split(raw, CALLBACK_SEP)) > 0
            THEN << <<"raise", "TypeError">>, 1 >>
            ELSE << <<"tuple">>, 0 >>

Decode ==
    /\ pc = "idle"
    /\ h.factory.kind # "absent"
    /\ \E raw \in Data :
          LET r == ApplyFactory(h.factory, raw) IN
          /\ decoded' = <<raw>> \o r[1]
          /\ h' = [h EXCEPT !.factory.consumed = @ + r[2]]
    /\ pc' = "decoded"
    /\ UNCHANGED <<args, ctor, wa, data, i, evaluated, called, raised>>

\* control is back with the caller
Return ==
    /\ pc \in {"done", "decoded"}
    /\ pc' = "idle"
    /\ wa' = "none" /\ data' = <<>> /\ i' = 0 /\ evaluated' = <<>>
    /\ called' = <<>> /\ raised' = "none" /\ decoded' = <<"none">>
    /\ UNCHANGED <<h, args, ctor>>

Next ==
    \/ MessageHandlerInit
    \/ CallbackButtonHandlerInit
    \/ CallbackSelectionHandlerInit
    \/ MessageStatusHandlerInit
    \/ RawUpdateHandlerInit
    \/ Call
    \/ EvalFilter
    \/ InvokeHandler
    \/ Decode
    \/ Return

Spec == Init /\ [][Next]_vars

---------------------------------------------------------------------------
(* Properties *)

InCall == pc \in {"filters", "done"}

Constructed == pc # "new"

CallbackCls == args.cls \in {"CallbackButtonHandler", "CallbackSelectionHandler"}

\* what the filter at position k answers on the arguments of the running call
Answer(k) == FilterResult(h.filters[k], wa, data)

FirstFalse(k) == Answer(k) = "False" /\ \A j \in 1..(k - 1) : Answer(j) # "False"

PositionsEvaluated == {evaluated[n] : n \in DOMAIN evaluated}

\* C1: during one call, if the filter at position k is the first to return
\* false, no filter at a position greater than k is evaluated and the
\* callback is not invoked.
C1_ShortCircuit ==
    InCall =>
        \A k \in DOMAIN h.filters :
            FirstFalse(k) =>
                /\ \A p \in PositionsEvaluated : p <= k
                /\ called = <<>>

C1_Witness ==
    /\ pc = "done"
    /\ \E k \in DOMAIN h.filters :
          /\ FirstFalse(k)
          /\ k < Len(h.filters)
          /\ k \in PositionsEvaluated

\* C2: when every filter of the handler returns true for (wa, data), and
\* also when there is no filter, one call invokes the callback exactly once,
\* with exactly (wa, data).
C2_CalledOnce ==
    /\ InCall => Len(called) <= 1
    /\ (pc = "done" /\ \A k \in DOMAIN h.filters : Answer(k) = "True")
          => called = << <<wa, data>> >>

C2_Witness ==
    /\ pc = "done"
    /\ Len(h.filters) >= 1
    /\ \A k \in DOMAIN h.filters : Answer(k) = "True"
    /\ called = << <<wa, data>> >>

\* C3: a callback handler built from a factory that yields a derived filter
\* stores the derived filter followed by the user filters in their order,
\* filters are evaluated in stored order, so the derived filter first, and
\* no user filter is evaluated on an update the derived filter rejects;
\* without a derived filter the stored filters are the user filters.
C3_DerivedFilterFirst ==
    h.type \in {"button", "selection"} =>
        /\ args.factory.shape = "CallbackData" =>
              h.filters = <<data_startswith(args.factory.id)>> \o args.filters
        /\ args.factory.shape # "CallbackData" => h.filters = args.filters
        /\ InCall => \A n \in DOMAIN evaluated : evaluated[n] = n
        /\ ( /\ InCall
             /\ args.factory.shape = "CallbackData"
             /\ FilterResult(data_startswith(args.factory.id), wa, data) = "False" )
              => PositionsEvaluated \subseteq {1}

C3_Witness ==
    /\ pc = "done"
    /\ h.type = "button"
    /\ args.factory.shape = "CallbackData"
    /\ Len(args.filters) >= 1
    /\ FilterResult(data_startswith(args.factory.id), wa, data) = "False"
    /\ evaluated = <<1>>

\* C4: constructing a callback handler with a factory that is no class, no
\* callable and no sequence raises the "Unsupported factory type" error
\* (ValueError), and no other error.
C4_InvalidFactoryError ==
    (Constructed /\ CallbackCls /\ args.factory.shape = "scalar")
        => ctor = "ValueError"

HasStructured(es) == \E n \in DOMAIN es : es[n].shape = "CallbackData"

FirstStructured(es) ==
    es[CHOOSE n \in DOMAIN es :
          /\ es[n].shape = "CallbackData"
          /\ \A m \in 1..(n - 1) : es[m].shape # "CallbackData"]

\* C5: resolving a sequence factory succeeds; with a structured-data type in
\* it the derived filter is the prefix filter of the first such type's
\* identifier, and without one there is no derived filter.
C5_FirstStructuredWins ==
    (Constructed /\ CallbackCls /\ args.factory.shape = "sequence") =>
        /\ ctor = "none"
        /\ IF HasStructured(args.factory.elems)
           THEN h.filters =
                   <<data_startswith(FirstStructured(args.factory.elems).id)>>
                       \o args.filters
           ELSE h.filters = args.filters

\* the tuple the claims expect of an N-element sequence factory on N segments
ExpectedTuple(es, segs) ==
    <<"tuple">> \o [n \in DOMAIN es |-> Apply(SubDecoder(es[n]), segs[n])]

\* C6: for an N-element sequence factory and a string of N segments joined
\* by the separator, the stored factory returns the N-tuple whose i-th
\* element is sub-decoder i applied to segment i.
C6_SequenceDecode ==
    (Constructed /\ CallbackCls /\ args.factory.shape = "sequence") =>
        /\ ctor = "none"
        /\ \A raw \in Data :
              LET segs == split(raw, CALLBACK_SEP) IN
              Len(segs) = Len(args.factory.elems) =>
                  ApplyFactory(h.factory, raw)[1]
                      = ExpectedTuple(args.factory.elems, segs)

\* the callback string starts with id and the separator, or is id
AcceptedPrefix(id, s) ==
    \/ s = id
    \/ /\ Len(s) > Len(id)
       /\ \A k \in 1..Len(id) : s[k] = id[k]
       /\ s[Len(id) + 1] = CALLBACK_SEP

C8_PlainCallable ==
    (Constructed /\ CallbackCls /\ args.factory.shape \in {"class", "function"}) =>
        /\ ctor = "none"
        /\ h.factory.kind = "itself"
        /\ h.factory.of = args.factory
        /\ h.filters = args.filters

C10_SegmentCountMismatch ==
    (Constructed /\ CallbackCls /\ args.factory.shape = "sequence") =>
        /\ ctor = "none"
        /\ \A raw \in Data :
              Len(split(raw, CALLBACK_SEP)) # Len(args.factory.elems) =>
                  ApplyFactory(h.factory, raw)[1] = <<"raise", "DecodeError">>

====
